---- MODULE Spec2Model ----
(***************************************************************************)
(* Groups of 0D spectroscopic observers (cherab/tools/observers/           *)
(* spectroscopic.py): Observer0DGroup with its two subclasses, the         *)
(* observers' pipeline lookup and connection, and the group's aggregation  *)
(* of same-named pipelines.                                                *)
(*                                                                         *)
(* Python values are records [t |-> <type name>, v |-> <payload>]; the     *)
(* payload of a list, tuple or ndarray is the sequence of its elements and *)
(* the payload of every other value is an integer (a str carries its text).*)
(* Python positions count from 0, TLA+ sequences from 1: position i of a   *)
(* Python sequence is element i + 1 of the TLA+ sequence.                  *)
(***************************************************************************)
EXTENDS Integers, Sequences, FiniteSets, TLC

(* ------------------------------ bounds --------------------------------- *)

\* The longest _sight_lines tuple a group is grown to.
MaxMembers == 2

(* ------------------------------ objects -------------------------------- *)

SightLineIds == {"s1"}
FibreOpticIds == {"f1", "f2"}
Sensors == SightLineIds \cup FibreOpticIds
Groups == {"los", "fog", "fog2"}
NoParent == "None"

SensorClass(s) ==
    IF s \in SightLineIds THEN "SpectroscopicSightLine" ELSE "SpectroscopicFibreOptic"

\* The class of sensor a group admits.
MemberClass(g) ==
    IF g = "los" THEN "SpectroscopicSightLine" ELSE "SpectroscopicFibreOptic"

(* --------------------------- Python values ----------------------------- *)

Val(t, v) == [t |-> t, v |-> v]
None == Val("NoneType", 0)
PyTrue == Val("bool", 1)
PyFalse == Val("bool", 0)
PyInt(i) == Val("int", i)
PyStr(x) == Val("str", x)
Engine(i) == Val("RenderEngine", i)

Range(seq) == {seq[i] : i \in 1..Len(seq)}

\* Sequences over S of length 0..n.
SeqsUpTo(S, n) == UNION {[1..k -> S] : k \in 0..n}

(* --------------------------- outcome of a call ------------------------- *)

Ok == [exc |-> "none", kind |-> "none"]
Raised(exc, kind) == [exc |-> exc, kind |-> kind]

Call(op, target, arg, outcome, ret) ==
    [op |-> op, target |-> target, arg |-> arg, outcome |-> outcome, ret |-> ret]

(* ------------------------------ state ---------------------------------- *)

VARIABLES
    sight_lines,       \* group -> its _sight_lines tuple (a sequence of sensors)
    parent,            \* sensor -> the group that is its scene-graph parent
    name,              \* sensor -> its name (a str value or None)
    pixel_samples,     \* sensor -> its pixel_samples
    acceptance_angle,  \* fibre optic -> its acceptance_angle
    render_engine,     \* sensor -> the render engine it references
    pipelines,         \* sensor -> its pipelines list (a sequence of pipeline ids)
    heap,              \* pipeline id -> the pipeline object's fields
    origin,            \* sensor -> its _origin (a Point3D)
    direction,         \* sensor -> its _direction (a Vector3D)
    transform,         \* sensor -> its transform: what translate and rotate_basis were given
    engines,           \* render engine instance -> its configuration
    last               \* the most recent call: operation, target, argument, outcome

vars == <<sight_lines, parent, name, pixel_samples, acceptance_angle,
          render_engine, pipelines, heap, origin, direction, transform, engines, last>>

(* --------------------------- pipeline objects -------------------------- *)

SupportedClasses == {"SpectralRadiancePipeline0D", "SpectralPowerPipeline0D",
                     "RadiancePipeline0D", "PowerPipeline0D"}

\* isinstance(pipeline, C) for the classes imported from raysect: the radiance
\* pipelines are subclasses of the power pipelines of the same family (the
\* branches the code orders as "SpectralRadiance, else SpectralPower" rely on it).
IsInstance(cls, C) ==
    \/ cls = C
    \/ cls = "SpectralRadiancePipeline0D" /\ C = "SpectralPowerPipeline0D"
    \/ cls = "RadiancePipeline0D" /\ C = "PowerPipeline0D"

\* PipelineClass(accumulate=False, display_progress=False, name=name)
NewSpectral(cls, nm) ==
    [cls |-> cls, name |-> nm, accumulate |-> PyFalse,
     display_progress |-> PyFalse, filter |-> None]

\* PipelineClass(filter=filter_func, accumulate=False, name=name)
NewMono(cls, nm, filter_func) ==
    [cls |-> cls, name |-> nm, accumulate |-> PyFalse,
     display_progress |-> None, filter |-> filter_func]

\* The identity of a pipeline object: the k-th pipeline sensor s constructed in its
\* connect_pipelines call of parity e.
PipelineId(s, k, e) == <<s, k, e>>

\* pipelines or [SpectralRadiancePipeline0D(accumulate=False)]
DefaultPipelines(s) == <<PipelineId(s, 1, 0)>>

\* The value raysect gives a pipeline's display_progress when the constructor call
\* names none.
DefaultPipelineObject ==
    [cls |-> "SpectralRadiancePipeline0D", name |-> None, accumulate |-> PyFalse,
     display_progress |-> PyTrue, filter |-> None]

\* The engine, pixel_samples and acceptance_angle a sensor is constructed with
\* (the constructors pass none of them on, so they are raysect's defaults).
DefaultEngine(s) == Val("RenderEngine", s)
DefaultPixelSamples == PyInt(1000)
DefaultAcceptanceAngle == PyInt(5)

(* ------------------------------ placement ------------------------------ *)

Point3D(x, y, z) == Val("Point3D", <<x, y, z>>)
Vector3D(x, y, z) == Val("Vector3D", <<x, y, z>>)

\* The reference axis both setters choose for the direction d:
\* if d.x != 0 or d.y != 0 or d.z != 1: up = Vector3D(0, 0, 1)
\* else: up = Vector3D(1, 0, 0)
Up(d) ==
    IF d.v[1] # 0 \/ d.v[2] # 0 \/ d.v[3] # 1 THEN Vector3D(0, 0, 1) ELSE Vector3D(1, 0, 0)

\* translate(o.x, o.y, o.z) * rotate_basis(d, up): the matrix is raysect's; the state
\* keeps the arguments it was built from.
Transform(o, d, up) == [translate |-> o.v, forward |-> d.v, up |-> up.v]

Cross(a, b) ==
    <<a[2] * b[3] - a[3] * b[2], a[3] * b[1] - a[1] * b[3], a[1] * b[2] - a[2] * b[1]>>

\* forward and up span no plane: one is zero, or they are parallel or anti-parallel.
Degenerate(d, up) == Cross(d.v, up.v) = <<0, 0, 0>>

\* What the call of rotate_basis(d, up) can do. The function is raysect's: with a
\* forward vector that spans a plane with up it returns the basis; for a degenerate
\* pair this module does not decide whether it returns or raises.
RotateBasisOutcomes(d, up) == IF Degenerate(d, up) THEN {"returns", "raises"} ELSE {"returns"}

\* The arguments the sensors of the runs are constructed with.
DefaultOrigin == Point3D(0, 0, 0)
DefaultDirection == Vector3D(1, 0, 0)

\* The render engine instances: the one each sensor is constructed with and the
\* ones assigned in the runs; an instance's configuration is its number of processes.
EngineIds == Sensors \cup {"e1", "e2"}
DefaultProcesses == 1

(* ------------------------------ Init ----------------------------------- *)

NoCall == Call("none", "none", None, Ok, None)

Init ==
    /\ sight_lines = [g \in Groups |-> <<>>]
    /\ parent = [s \in Sensors |-> NoParent]
    /\ name = [s \in Sensors |-> None]
    /\ pixel_samples = [s \in Sensors |-> DefaultPixelSamples]
    /\ acceptance_angle = [s \in FibreOpticIds |-> DefaultAcceptanceAngle]
    /\ render_engine = [s \in Sensors |-> DefaultEngine(s)]
    /\ pipelines = [s \in Sensors |-> DefaultPipelines(s)]
    /\ heap = [id \in {PipelineId(s, 1, 0) : s \in Sensors} |-> DefaultPipelineObject]
    /\ origin = [s \in Sensors |-> DefaultOrigin]
    /\ direction = [s \in Sensors |-> DefaultDirection]
    /\ transform = [s \in Sensors |->
                       Transform(DefaultOrigin, DefaultDirection, Up(DefaultDirection))]
    /\ engines = [e \in EngineIds |-> DefaultProcesses]
    /\ last = NoCall

(* ------------------------- group membership ---------------------------- *)

\* A group without the isinstance test.
Admits_Any(g, s) == TRUE

\* isinstance(sight_line, SpectroscopicSightLine / SpectroscopicFibreOptic)
Admits(g, s) == SensorClass(s) = MemberClass(g)

\* LineOfSightGroup.add_sight_line, FibreOpticGroup.add_sight_line
add_sight_line(g, s) ==
    /\ Len(sight_lines[g]) < MaxMembers
    /\ IF ~Admits(g, s)
       THEN /\ last' = Call("add_sight_line", g, s, Raised("TypeError", "TypeMismatch"), None)
            /\ UNCHANGED <<sight_lines, parent>>
       ELSE /\ parent' = [parent EXCEPT ![s] = g]
            /\ sight_lines' = [sight_lines EXCEPT ![g] = Append(@, s)]
            /\ last' = Call("add_sight_line", g, s, Ok, None)
    /\ UNCHANGED <<name, pixel_samples, acceptance_angle, render_engine, pipelines, heap>>
    /\ UNCHANGED <<origin, direction, transform, engines>>

\* LineOfSightGroup.sight_lines.setter, FibreOpticGroup.sight_lines.setter, given a
\* list or tuple of sensors.
sight_lines_setter(g, value) ==
    /\ IF \E i \in 1..Len(value) : ~Admits(g, value[i])
       THEN /\ last' = Call("sight_lines.setter", g, value,
                            Raised("TypeError", "TypeMismatch"), None)
            /\ UNCHANGED <<sight_lines, parent>>
       ELSE /\ parent' = [s \in Sensors |-> IF s \in Range(value) THEN g ELSE parent[s]]
            /\ sight_lines' = [sight_lines EXCEPT ![g] = value]
            /\ last' = Call("sight_lines.setter", g, value, Ok, None)
    /\ UNCHANGED <<name, pixel_samples, acceptance_angle, render_engine, pipelines, heap>>
    /\ UNCHANGED <<origin, direction, transform, engines>>

(* ------------------------------ observe -------------------------------- *)

\* An observe that calls each sensor of the group once, however often it stands in
\* _sight_lines.
ObserveCalls_OncePerSensor(sl) ==
    SelectSeq([k \in 1..Len(sl) |-> IF \E j \in 1..(k - 1) : sl[j] = sl[k] THEN "" ELSE sl[k]],
              LAMBDA x : x # "")

\* for sight_line in self._sight_lines: sight_line.observe()
\* The sensors whose observe() the loop calls, in the order of the calls.
ObserveCalls(sl) == [k \in 1..Len(sl) |-> sl[k]]

\* Observer0DGroup.observe; the call record keeps the calls it made.
observe(g) ==
    /\ last' = Call("observe", g, None, Ok, Val("calls", ObserveCalls(sight_lines[g])))
    /\ UNCHANGED <<sight_lines, parent, name, pixel_samples, acceptance_angle,
                   render_engine, pipelines, heap, origin, direction, transform, engines>>

(* ----------------------- broadcast properties -------------------------- *)

\* isinstance(value, (list, tuple, ndarray)): the numeric properties and the flags
NumericSeqTypes == {"list", "tuple", "ndarray"}
\* isinstance(value, (list, tuple)): render_engine
ObjectSeqTypes == {"list", "tuple"}

Repeat(value, n) == [i \in 1..n |-> value]

\* AssignEach with the loop variable left out of the subscript: every member gets
\* the first value.
AssignEach_FirstValue(field, sl, vals, i, n) ==
    [s \in DOMAIN field |-> IF \E j \in i..n : sl[j] = s THEN vals[i] ELSE field[s]]

\* for sight_line, v in zip(self._sight_lines, value): sight_line.<P> = v
\* run over the positions i..n of the group.
RECURSIVE AssignEach(_, _, _, _, _)
AssignEach(field, sl, vals, i, n) ==
    IF i > n THEN field
    ELSE AssignEach([field EXCEPT ![sl[i]] = vals[i]], sl, vals, i + 1, n)

\* BroadcastSet with the scalar branch starting at the second member.
BroadcastSet_SkipsFirst(field, sl, value) ==
    IF value.t \in NumericSeqTypes
    THEN IF Len(value.v) = Len(sl)
         THEN [field |-> AssignEach(field, sl, value.v, 1, Len(sl)), outcome |-> Ok]
         ELSE [field |-> field, outcome |-> Raised("ValueError", "LengthMismatch")]
    ELSE [field |-> AssignEach(field, sl, Repeat(value, Len(sl)), 2, Len(sl)),
          outcome |-> Ok]

\* BroadcastSet without the length check: zip stops at the shorter of the two.
BroadcastSet_NoLengthCheck(field, sl, value) ==
    IF value.t \in NumericSeqTypes
    THEN LET n == IF Len(value.v) < Len(sl) THEN Len(value.v) ELSE Len(sl)
         IN  [field |-> AssignEach(field, sl, value.v, 1, n), outcome |-> Ok]
    ELSE [field |-> AssignEach(field, sl, Repeat(value, Len(sl)), 1, Len(sl)),
          outcome |-> Ok]

\* The setter of a numeric broadcast property (min_wavelength, max_wavelength,
\* spectral_bins, ray_extinction_prob, ray_extinction_min_depth, ray_max_depth,
\* ray_important_path_weight, pixel_samples, samples_per_task, acceptance_angle,
\* radius: one body, the property's name apart), on the members' field.
BroadcastSet(field, sl, value) ==
    IF value.t \in NumericSeqTypes
    THEN IF Len(value.v) = Len(sl)
         THEN [field |-> AssignEach(field, sl, value.v, 1, Len(sl)), outcome |-> Ok]
         ELSE [field |-> field, outcome |-> Raised("ValueError", "LengthMismatch")]
    ELSE [field |-> AssignEach(field, sl, Repeat(value, Len(sl)), 1, Len(sl)),
          outcome |-> Ok]

\* The getter of a broadcast property: [sight_line.<P> for sight_line in self._sight_lines]
BroadcastGet(field, sl) == Val("list", [i \in 1..Len(sl) |-> field[sl[i]]])

\* isinstance(v, RenderEngine)
IsRenderEngine(v) == v.t = "RenderEngine"

\* The first position of vals that holds no render engine, Len(vals) + 1 if none.
FirstNonEngine(vals) ==
    IF \E i \in 1..Len(vals) : ~IsRenderEngine(vals[i])
    THEN CHOOSE i \in 1..Len(vals) :
             /\ ~IsRenderEngine(vals[i])
             /\ \A j \in 1..(i - 1) : IsRenderEngine(vals[j])
    ELSE Len(vals) + 1

\* RenderEngineSet without the isinstance check of the elements of a list.
RenderEngineSet_UncheckedList(field, sl, value) ==
    IF value.t \in ObjectSeqTypes
    THEN IF Len(value.v) = Len(sl)
         THEN [field |-> AssignEach(field, sl, value.v, 1, Len(sl)), outcome |-> Ok]
         ELSE [field |-> field, outcome |-> Raised("ValueError", "LengthMismatch")]
    ELSE IF ~IsRenderEngine(value)
         THEN [field |-> field, outcome |-> Raised("TypeError", "TypeMismatch")]
         ELSE [field |-> AssignEach(field, sl, Repeat(value, Len(sl)), 1, Len(sl)),
               outcome |-> Ok]

\* A render_engine setter whose scalar branch gives every member an engine of its
\* own instead of the instance assigned.
RenderEngineSet_PerMemberEngine(field, sl, value) ==
    IF value.t \in ObjectSeqTypes
    THEN IF Len(value.v) = Len(sl)
         THEN LET k == FirstNonEngine(value.v)
              IN  [field |-> AssignEach(field, sl, value.v, 1, k - 1),
                   outcome |-> IF k <= Len(sl) THEN Raised("TypeError", "TypeMismatch")
                               ELSE Ok]
         ELSE [field |-> field, outcome |-> Raised("ValueError", "LengthMismatch")]
    ELSE IF ~IsRenderEngine(value)
         THEN [field |-> field, outcome |-> Raised("TypeError", "TypeMismatch")]
         ELSE [field |-> [s \in DOMAIN field |->
                             IF s \in Range(sl) THEN DefaultEngine(s) ELSE field[s]],
               outcome |-> Ok]

\* Observer0DGroup.render_engine.setter
RenderEngineSet(field, sl, value) ==
    IF value.t \in ObjectSeqTypes
    THEN IF Len(value.v) = Len(sl)
         THEN LET k == FirstNonEngine(value.v)
              IN  [field |-> AssignEach(field, sl, value.v, 1, k - 1),
                   outcome |-> IF k <= Len(sl) THEN Raised("TypeError", "TypeMismatch")
                               ELSE Ok]
         ELSE [field |-> field, outcome |-> Raised("ValueError", "LengthMismatch")]
    ELSE IF ~IsRenderEngine(value)
         THEN [field |-> field, outcome |-> Raised("TypeError", "TypeMismatch")]
         ELSE [field |-> AssignEach(field, sl, Repeat(value, Len(sl)), 1, Len(sl)),
               outcome |-> Ok]

\* The classes whose instances carry the flag: accumulate is written to
\* (PowerPipeline0D, SpectralPowerPipeline0D), display_progress to SpectralPowerPipeline0D.
FlagClasses(flag) ==
    IF flag = "accumulate" THEN {"PowerPipeline0D", "SpectralPowerPipeline0D"}
    ELSE {"SpectralPowerPipeline0D"}

HasFlag(cls, flag) == \E C \in FlagClasses(flag) : IsInstance(cls, C)

\* _SpectroscopicObserver0DBase.accumulate.setter / display_progress.setter on the
\* sensor whose pipelines list is ids.
SensorFlagSet(h, ids, flag, value) ==
    [id \in DOMAIN h |->
        IF id \in Range(ids) /\ HasFlag(h[id].cls, flag)
        THEN [h[id] EXCEPT ![flag] = value]
        ELSE h[id]]

\* _SpectroscopicObserver0DBase.accumulate / display_progress: one entry per pipeline.
SensorFlagGet(h, ids, flag) ==
    Val("list", [i \in 1..Len(ids) |->
                    IF HasFlag(h[ids[i]].cls, flag) THEN h[ids[i]][flag] ELSE None])

RECURSIVE FlagEach(_, _, _, _, _, _)
FlagEach(h, pl, sl, vals, flag, i) ==
    IF i > Len(sl) THEN h
    ELSE FlagEach(SensorFlagSet(h, pl[sl[i]], flag, vals[i]), pl, sl, vals, flag, i + 1)

\* Observer0DGroup.accumulate.setter / display_progress.setter
FlagBroadcastSet(h, pl, sl, flag, value) ==
    IF value.t \in NumericSeqTypes
    THEN IF Len(value.v) = Len(sl)
         THEN [heap |-> FlagEach(h, pl, sl, value.v, flag, 1), outcome |-> Ok]
         ELSE [heap |-> h, outcome |-> Raised("ValueError", "LengthMismatch")]
    ELSE [heap |-> FlagEach(h, pl, sl, Repeat(value, Len(sl)), flag, 1), outcome |-> Ok]

\* Observer0DGroup.accumulate / display_progress
FlagBroadcastGet(h, pl, sl, flag) ==
    Val("list", [i \in 1..Len(sl) |-> SensorFlagGet(h, pl[sl[i]], flag)])

\* What reading broadcast property p of group g returns.
GroupGet(p, g) ==
    CASE p = "pixel_samples" -> BroadcastGet(pixel_samples, sight_lines[g])
      [] p = "acceptance_angle" -> BroadcastGet(acceptance_angle, sight_lines[g])
      [] p = "render_engine" -> BroadcastGet(render_engine, sight_lines[g])
      [] OTHER -> FlagBroadcastGet(heap, pipelines, sight_lines[g], p)

pixel_samples_setter(g, value) ==
    LET r == BroadcastSet(pixel_samples, sight_lines[g], value)
    IN  /\ pixel_samples' = r.field
        /\ last' = Call("set", g, [p |-> "pixel_samples", value |-> value], r.outcome, None)
        /\ UNCHANGED <<origin, direction, transform, engines>>
        /\ UNCHANGED <<sight_lines, parent, name, acceptance_angle, render_engine,
                       pipelines, heap>>

\* FibreOpticGroup.acceptance_angle.setter
acceptance_angle_setter(g, value) ==
    LET r == BroadcastSet(acceptance_angle, sight_lines[g], value)
    IN  /\ MemberClass(g) = "SpectroscopicFibreOptic"
        /\ acceptance_angle' = r.field
        /\ last' = Call("set", g, [p |-> "acceptance_angle", value |-> value], r.outcome, None)
        /\ UNCHANGED <<origin, direction, transform, engines>>
        /\ UNCHANGED <<sight_lines, parent, name, pixel_samples, render_engine,
                       pipelines, heap>>

render_engine_setter(g, value) ==
    LET r == RenderEngineSet(render_engine, sight_lines[g], value)
    IN  /\ render_engine' = r.field
        /\ last' = Call("set", g, [p |-> "render_engine", value |-> value], r.outcome, None)
        /\ UNCHANGED <<origin, direction, transform, engines>>
        /\ UNCHANGED <<sight_lines, parent, name, pixel_samples, acceptance_angle,
                       pipelines, heap>>

\* accumulate.setter and display_progress.setter of the group
flag_setter(g, flag, value) ==
    LET r == FlagBroadcastSet(heap, pipelines, sight_lines[g], flag, value)
    IN  /\ heap' = r.heap
        /\ last' = Call("set", g, [p |-> flag, value |-> value], r.outcome, None)
        /\ UNCHANGED <<origin, direction, transform, engines>>
        /\ UNCHANGED <<sight_lines, parent, name, pixel_samples, acceptance_angle,
                       render_engine, pipelines>>

(* ------------------------------ lookup --------------------------------- *)

\* isinstance(item, int): bool is a subclass of int (True is 1, False is 0).
IsIntKey(item) == item.t \in {"int", "bool"}
\* isinstance(item, str)
IsStrKey(item) == item.t = "str"

\* PyIndex that refuses every negative index.
PyIndex_NoNegative(n, i) == IF 0 <= i /\ i < n THEN i + 1 ELSE 0

\* seq[i] of a Python list or tuple of length n: the position read (counted from 1),
\* or 0 where Python raises IndexError. A negative index counts from the end.
PyIndex(n, i) ==
    IF 0 <= i /\ i < n THEN i + 1
    ELSE IF -n <= i /\ i < 0 THEN n + i + 1
    ELSE 0

\* [k for k in range(len(names)) if names[k] == item]
Matches(names, item) == {k \in 1..Len(names) : names[k] = item}

\* Resolve that returns the first of several elements of the same name.
Resolve_FirstMatch(elems, names, item) ==
    IF IsIntKey(item)
    THEN LET k == PyIndex(Len(elems), item.v)
         IN  IF k = 0 THEN [outcome |-> Raised("IndexError", "LookupNotFound"), ret |-> None]
             ELSE [outcome |-> Ok, ret |-> elems[k]]
    ELSE IF IsStrKey(item)
    THEN LET m == Matches(names, item)
         IN  IF m = {} THEN [outcome |-> Raised("ValueError", "LookupNotFound"), ret |-> None]
             ELSE [outcome |-> Ok, ret |-> elems[CHOOSE k \in m : \A j \in m : k <= j]]
    ELSE [outcome |-> Raised("TypeError", "InvalidKeyType"), ret |-> None]

\* Resolve that takes every key that is no str for an index.
Resolve_AnyKeyIsIndex(elems, names, item) ==
    IF ~IsStrKey(item)
    THEN LET k == PyIndex(Len(elems), item.v)
         IN  IF k = 0 THEN [outcome |-> Raised("IndexError", "LookupNotFound"), ret |-> None]
             ELSE [outcome |-> Ok, ret |-> elems[k]]
    ELSE LET m == Matches(names, item)
         IN  IF Cardinality(m) = 1 THEN [outcome |-> Ok, ret |-> elems[CHOOSE k \in m : TRUE]]
             ELSE IF Cardinality(m) = 0
             THEN [outcome |-> Raised("ValueError", "LookupNotFound"), ret |-> None]
             ELSE [outcome |-> Raised("ValueError", "LookupAmbiguous"), ret |-> None]

\* The body get_pipeline and __getitem__ share: elems is the collection, names the
\* names of its elements, item the key.
Resolve(elems, names, item) ==
    IF IsIntKey(item)
    THEN LET k == PyIndex(Len(elems), item.v)
         IN  IF k = 0 THEN [outcome |-> Raised("IndexError", "LookupNotFound"), ret |-> None]
             ELSE [outcome |-> Ok, ret |-> elems[k]]
    ELSE IF IsStrKey(item)
    THEN LET m == Matches(names, item)
         IN  IF Cardinality(m) = 1 THEN [outcome |-> Ok, ret |-> elems[CHOOSE k \in m : TRUE]]
             ELSE IF Cardinality(m) = 0
             THEN [outcome |-> Raised("ValueError", "LookupNotFound"), ret |-> None]
             ELSE [outcome |-> Raised("ValueError", "LookupAmbiguous"), ret |-> None]
    ELSE [outcome |-> Raised("TypeError", "InvalidKeyType"), ret |-> None]

\* [pipeline.name for pipeline in self.pipelines]
PipelineNames(h, ids) == [k \in 1..Len(ids) |-> h[ids[k]].name]
\* [sight_line.name for sight_line in self._sight_lines]
SensorNames(nm, sl) == [k \in 1..Len(sl) |-> nm[sl[k]]]

\* _SpectroscopicObserver0DBase.get_pipeline on the sensor whose pipelines list is ids
GetPipeline(h, ids, item) == Resolve(ids, PipelineNames(h, ids), item)
\* Observer0DGroup.__getitem__ on the group whose _sight_lines is sl
GetItem(nm, sl, item) == Resolve(sl, SensorNames(nm, sl), item)

get_pipeline(s, item) ==
    LET r == GetPipeline(heap, pipelines[s], item)
    IN  /\ last' = Call("get_pipeline", s, item, r.outcome, r.ret)
        /\ UNCHANGED <<origin, direction, transform, engines>>
        /\ UNCHANGED <<sight_lines, parent, name, pixel_samples, acceptance_angle,
                       render_engine, pipelines, heap>>

getitem(g, item) ==
    LET r == GetItem(name, sight_lines[g], item)
    IN  /\ last' = Call("getitem", g, item, r.outcome, r.ret)
        /\ UNCHANGED <<origin, direction, transform, engines>>
        /\ UNCHANGED <<sight_lines, parent, name, pixel_samples, acceptance_angle,
                       render_engine, pipelines, heap>>

(* ------------------------- connect_pipelines --------------------------- *)

\* One (class, name, filter) tuple of the properties list.
Property(cls, nm, filter_func) == [cls |-> cls, name |-> nm, filter |-> filter_func]

IsSpectralClass(cls) == cls \in {"SpectralRadiancePipeline0D", "SpectralPowerPipeline0D"}
IsMonoClass(cls) == cls \in {"RadiancePipeline0D", "PowerPipeline0D"}

\* The pipeline object one tuple of the properties list is built into.
Construct(e) ==
    IF IsSpectralClass(e.cls) THEN NewSpectral(e.cls, e.name)
    ELSE NewMono(e.cls, e.name, e.filter)

\* The pipeline ids some sensor's list holds.
Live(pl) == UNION {Range(pl[s]) : s \in DOMAIN pl}

\* The objects a call constructs are new ones: none of them is an object of the
\* list being replaced, the only place that holds the sensor's earlier pipelines.
NewEpoch(pl, s) == IF pl[s] = <<>> THEN 0 ELSE 1 - pl[s][1][3]

\* A connect_pipelines that appends the new pipelines to the list the sensor has.
ConnectSensor_Appends(pl, h, s, properties) ==
    IF \E k \in 1..Len(properties) :
           ~IsSpectralClass(properties[k].cls) /\ ~IsMonoClass(properties[k].cls)
    THEN [pipelines |-> pl, heap |-> h,
          outcome |-> Raised("ValueError", "UnsupportedVariant")]
    ELSE LET ids == [k \in 1..Len(properties) |-> PipelineId(s, k, NewEpoch(pl, s))]
             npl == [pl EXCEPT ![s] = pl[s] \o ids]
         IN  [pipelines |-> npl,
              heap |-> [id \in Live(npl) |->
                           IF id \in Range(ids) THEN Construct(properties[id[2]])
                           ELSE h[id]],
              outcome |-> Ok]

\* A connect_pipelines that appends to self.pipelines as it goes, so that the
\* entries before an unsupported one are connected when it raises.
ConnectSensor_AssignsPrefix(pl, h, s, properties) ==
    LET bad == {k \in 1..Len(properties) :
                   ~IsSpectralClass(properties[k].cls) /\ ~IsMonoClass(properties[k].cls)}
        n == IF bad = {} THEN Len(properties)
             ELSE (CHOOSE k \in bad : \A j \in bad : k <= j) - 1
        ids == [k \in 1..n |-> PipelineId(s, k, NewEpoch(pl, s))]
        npl == [pl EXCEPT ![s] = ids]
    IN  [pipelines |-> npl,
         heap |-> [id \in Live(npl) |->
                      IF id \in Range(ids) THEN Construct(properties[id[2]])
                      ELSE h[id]],
         outcome |-> IF bad = {} THEN Ok ELSE Raised("ValueError", "UnsupportedVariant")]

\* _SpectroscopicObserver0DBase.connect_pipelines on sensor s: the pipelines are
\* built into a local list, which is assigned to self.pipelines at the end; an
\* unsupported class raises before the assignment.
ConnectSensor(pl, h, s, properties) ==
    IF \E k \in 1..Len(properties) :
           ~IsSpectralClass(properties[k].cls) /\ ~IsMonoClass(properties[k].cls)
    THEN [pipelines |-> pl, heap |-> h,
          outcome |-> Raised("ValueError", "UnsupportedVariant")]
    ELSE LET ids == [k \in 1..Len(properties) |-> PipelineId(s, k, NewEpoch(pl, s))]
             npl == [pl EXCEPT ![s] = ids]
         IN  [pipelines |-> npl,
              heap |-> [id \in Live(npl) |->
                           IF id \in Range(ids) THEN Construct(properties[id[2]])
                           ELSE h[id]],
              outcome |-> Ok]

\* A group connect_pipelines that builds the pipelines once, for its first sensor,
\* and gives every sensor that same list.
ConnectEach_SharedList(pl, h, sl, properties, i) ==
    IF Len(sl) = 0 THEN [pipelines |-> pl, heap |-> h, outcome |-> Ok]
    ELSE LET r == ConnectSensor(pl, h, sl[1], properties)
             npl == [s \in DOMAIN pl |->
                        IF s \in Range(sl) THEN r.pipelines[sl[1]] ELSE pl[s]]
         IN  IF r.outcome # Ok THEN r
             ELSE [pipelines |-> npl,
                   heap |-> [id \in Live(npl) |-> r.heap[id]],
                   outcome |-> Ok]

\* Observer0DGroup.connect_pipelines:
\* for sight_line in self._sight_lines: sight_line.connect_pipelines(properties)
RECURSIVE ConnectEach(_, _, _, _, _)
ConnectEach(pl, h, sl, properties, i) ==
    IF i > Len(sl) THEN [pipelines |-> pl, heap |-> h, outcome |-> Ok]
    ELSE LET r == ConnectSensor(pl, h, sl[i], properties)
         IN  IF r.outcome # Ok THEN r
             ELSE ConnectEach(r.pipelines, r.heap, sl, properties, i + 1)

connect_pipelines(s, properties) ==
    LET r == ConnectSensor(pipelines, heap, s, properties.v)
    IN  /\ pipelines' = r.pipelines
        /\ heap' = r.heap
        /\ last' = Call("connect_pipelines", s, properties, r.outcome, None)
        /\ UNCHANGED <<origin, direction, transform, engines>>
        /\ UNCHANGED <<sight_lines, parent, name, pixel_samples, acceptance_angle,
                       render_engine>>

group_connect_pipelines(g, properties) ==
    LET r == ConnectEach(pipelines, heap, sight_lines[g], properties.v, 1)
    IN  /\ pipelines' = r.pipelines
        /\ heap' = r.heap
        /\ last' = Call("group.connect_pipelines", g, properties, r.outcome, None)
        /\ UNCHANGED <<origin, direction, transform, engines>>
        /\ UNCHANGED <<sight_lines, parent, name, pixel_samples, acceptance_angle,
                       render_engine>>

(* ------------------------ _get_same_pipelines -------------------------- *)

NoMatches == [pipelines |-> <<>>, sight_lines |-> <<>>, outcome |-> Ok]

\* for sight_line in self._sight_lines:
\*     try: pipelines.append(sight_line.get_pipeline(item))
\*     except (ValueError, IndexError): continue
\*     else: sight_lines.append(sight_line)
\* from member i on; an exception of another class leaves the loop and the method.
RECURSIVE Collect(_, _, _, _, _)
Collect(h, pl, sl, item, i) ==
    IF i > Len(sl) THEN NoMatches
    ELSE LET r == GetPipeline(h, pl[sl[i]], item)
             rest == Collect(h, pl, sl, item, i + 1)
         IN  IF r.outcome = Ok
             THEN IF rest.outcome # Ok THEN rest
                  ELSE [pipelines |-> <<r.ret>> \o rest.pipelines,
                        sight_lines |-> <<sl[i]>> \o rest.sight_lines,
                        outcome |-> Ok]
             ELSE IF r.outcome.exc \in {"ValueError", "IndexError"}
                  THEN rest
                  ELSE [NoMatches EXCEPT !.outcome = r.outcome]

\* set(type(pipeline) for pipeline in pipelines)
PipelineTypes(h, ids) == {h[ids[k]].cls : k \in 1..Len(ids)}

\* An aggregation without the comparison of the pipelines' types.
GetSamePipelines_NoTypeCheck(h, pl, sl, item) ==
    LET c == Collect(h, pl, sl, item, 1)
    IN  IF c.outcome # Ok THEN [outcome |-> c.outcome, ret |-> None]
        ELSE IF Len(c.pipelines) = 0
        THEN [outcome |-> Raised("IndexError", "MessageFormat"), ret |-> None]
        ELSE [outcome |-> Ok,
              ret |-> [pipelines |-> c.pipelines, sight_lines |-> c.sight_lines]]

\* An aggregation that returns every sight line of the group, matched or not.
GetSamePipelines_AllSensors(h, pl, sl, item) ==
    LET c == Collect(h, pl, sl, item, 1)
    IN  IF c.outcome # Ok THEN [outcome |-> c.outcome, ret |-> None]
        ELSE IF Len(c.pipelines) = 0
        THEN [outcome |-> Raised("IndexError", "MessageFormat"), ret |-> None]
        ELSE IF Cardinality(PipelineTypes(h, c.pipelines)) > 1
        THEN [outcome |-> Raised("ValueError", "AggregationTypeConflict"), ret |-> None]
        ELSE [outcome |-> Ok, ret |-> [pipelines |-> c.pipelines, sight_lines |-> sl]]

\* Observer0DGroup._get_same_pipelines on the group whose _sight_lines is sl. With
\* no match, the message of line 407 is formatted from one argument, a tuple, for
\* its two fields: str.format raises IndexError and the ValueError is never built.
GetSamePipelines(h, pl, sl, item) ==
    LET c == Collect(h, pl, sl, item, 1)
    IN  IF c.outcome # Ok THEN [outcome |-> c.outcome, ret |-> None]
        ELSE IF Len(c.pipelines) = 0
        THEN [outcome |-> Raised("IndexError", "MessageFormat"), ret |-> None]
        ELSE IF Cardinality(PipelineTypes(h, c.pipelines)) > 1
        THEN [outcome |-> Raised("ValueError", "AggregationTypeConflict"), ret |-> None]
        ELSE [outcome |-> Ok,
              ret |-> [pipelines |-> c.pipelines, sight_lines |-> c.sight_lines]]

get_same_pipelines(g, item) ==
    LET r == GetSamePipelines(heap, pipelines, sight_lines[g], item)
    IN  /\ last' = Call("_get_same_pipelines", g, item, r.outcome, r.ret)
        /\ UNCHANGED <<origin, direction, transform, engines>>
        /\ UNCHANGED <<sight_lines, parent, name, pixel_samples, acceptance_angle,
                       render_engine, pipelines, heap>>

(* ------------------------------ plotting ------------------------------- *)

\* What a call has put on the matplotlib axes when it returns or raises: the bars
\* or lines in drawing order, the label of the y axis and the title.
Axes(artists, ylabel, title) == [artists |-> artists, ylabel |-> ylabel, title |-> title]
EmptyAxes == Axes(<<>>, None, None)

\* bool(name and len(name)) of a name that is None or a str; the names of the runs
\* that are strings are not empty.
IsNamed(nm) == nm.t = "str"

\* self._sight_lines.index(sight_line)
FirstIndex(sl, s) == (CHOOSE k \in 1..Len(sl) : sl[k] = s /\ \A j \in 1..(k - 1) : sl[j] # s) - 1

\* The title both group plots set: with an integer item the pipelines' name if they
\* share one that is set, "pipeline <item>" if not; with a string item the item.
PlotTitle(h, ids, item) ==
    IF IsIntKey(item)
    THEN IF Cardinality({h[ids[k]].name : k \in 1..Len(ids)}) = 1 /\ IsNamed(h[ids[1]].name)
         THEN h[ids[1]].name
         ELSE Val("pipeline", item.v)
    ELSE item

\* Observer0DGroup.plot_total_signal(item) on a new axes: one bar per matched sight
\* line, with the pipeline it integrates and its tick label (the sensor's name, or
\* its index in the group); ax.bar is called once, after the loop.
PlotTotalSignal(h, pl, nm, sl, item) ==
    LET r == GetSamePipelines(h, pl, sl, item)
    IN  IF r.outcome # Ok THEN [outcome |-> r.outcome, ret |-> EmptyAxes]
        ELSE LET ids == r.ret.pipelines
                 sls == r.ret.sight_lines
                 bars == [k \in 1..Len(ids) |->
                             [signal |-> ids[k],
                              tick_label |-> IF IsNamed(nm[sls[k]]) THEN nm[sls[k]]
                                             ELSE PyInt(FirstIndex(sl, sls[k]))]]
                 ylabel == IF h[ids[Len(ids)]].cls
                                  \in {"SpectralRadiancePipeline0D", "RadiancePipeline0D"}
                           THEN "Radiance" ELSE "Power"
             IN  [outcome |-> Ok, ret |-> Axes(bars, ylabel, PlotTitle(h, ids, item))]

\* The lines _SpectroscopicObserver0DBase.plot_spectrum(item, ax, extras=False)
\* draws for the sight lines sls from position i on, added to lines; a pipeline that
\* is not a spectral one raises TypeError and the lines drawn so far stay on the axes.
RECURSIVE PlotEach(_, _, _, _, _, _, _)
PlotEach(h, pl, nm, sls, item, i, lines) ==
    IF i > Len(sls) THEN [outcome |-> Ok, lines |-> lines]
    ELSE LET r == GetPipeline(h, pl[sls[i]], item)
         IN  IF r.outcome # Ok THEN [outcome |-> r.outcome, lines |-> lines]
             ELSE IF ~IsInstance(h[r.ret].cls, "SpectralPowerPipeline0D")
             THEN [outcome |-> Raised("TypeError", "UnsupportedVariant"), lines |-> lines]
             ELSE PlotEach(h, pl, nm, sls, item, i + 1,
                           Append(lines, [spectrum |-> r.ret, label |-> nm[sls[i]]]))

\* Observer0DGroup.plot_spectra(item, in_photons) on a new axes
PlotSpectra(h, pl, nm, sl, item, in_photons) ==
    LET r == GetSamePipelines(h, pl, sl, item)
    IN  IF r.outcome # Ok THEN [outcome |-> r.outcome, ret |-> EmptyAxes]
        ELSE LET ids == r.ret.pipelines
                 d == PlotEach(h, pl, nm, r.ret.sight_lines, item, 1, <<>>)
                 ylabel == <<IF IsInstance(h[ids[1]].cls, "SpectralRadiancePipeline0D")
                             THEN "Spectral radiance" ELSE "Spectral power",
                             IF in_photons THEN "photon/s" ELSE "W">>
             IN  IF d.outcome # Ok
                 THEN [outcome |-> d.outcome, ret |-> Axes(d.lines, None, None)]
                 ELSE [outcome |-> Ok, ret |-> Axes(d.lines, ylabel, PlotTitle(h, ids, item))]

plot_total_signal(g, item) ==
    LET r == PlotTotalSignal(heap, pipelines, name, sight_lines[g], item)
    IN  /\ last' = Call("plot_total_signal", g, item, r.outcome, r.ret)
        /\ UNCHANGED <<origin, direction, transform, engines>>
        /\ UNCHANGED <<sight_lines, parent, name, pixel_samples, acceptance_angle,
                       render_engine, pipelines, heap>>

plot_spectra(g, item, in_photons) ==
    LET r == PlotSpectra(heap, pipelines, name, sight_lines[g], item, in_photons)
    IN  /\ last' = Call("plot_spectra", g, item, r.outcome, r.ret)
        /\ UNCHANGED <<origin, direction, transform, engines>>
        /\ UNCHANGED <<sight_lines, parent, name, pixel_samples, acceptance_angle,
                       render_engine, pipelines, heap>>

(* ------------------------- origin and direction ------------------------ *)

BasisError == Raised("Exception", "DegenerateBasis")

\* _SpectroscopicObserver0DBase.origin.setter: the type check, the choice of up from
\* the direction the sensor has, the assignment of _origin, and then the transform.
\* If rotate_basis raises, _origin is assigned and the transform is not.
origin_setter(s, value) ==
    /\ IF value.t # "Point3D"
       THEN /\ last' = Call("origin.setter", s, value, Raised("TypeError", "TypeMismatch"), None)
            /\ UNCHANGED <<origin, direction, transform>>
       ELSE \E lib \in RotateBasisOutcomes(direction[s], Up(direction[s])) :
               /\ origin' = [origin EXCEPT ![s] = value]
               /\ transform' = IF lib = "returns"
                               THEN [transform EXCEPT
                                        ![s] = Transform(value, direction[s], Up(direction[s]))]
                               ELSE transform
               /\ last' = Call("origin.setter", s, value,
                               IF lib = "returns" THEN Ok ELSE BasisError, None)
               /\ UNCHANGED direction
    /\ UNCHANGED <<sight_lines, parent, name, pixel_samples, acceptance_angle,
                   render_engine, pipelines, heap, engines>>

\* _SpectroscopicObserver0DBase.direction.setter: the type check, the choice of up
\* from the new direction, the assignment of _direction, and then the transform.
\* If rotate_basis raises, _direction is assigned and the transform is not.
direction_setter(s, value) ==
    /\ IF value.t # "Vector3D"
       THEN /\ last' = Call("direction.setter", s, value,
                            Raised("TypeError", "TypeMismatch"), None)
            /\ UNCHANGED <<origin, direction, transform>>
       ELSE \E lib \in RotateBasisOutcomes(value, Up(value)) :
               /\ direction' = [direction EXCEPT ![s] = value]
               /\ transform' = IF lib = "returns"
                               THEN [transform EXCEPT
                                        ![s] = Transform(origin[s], value, Up(value))]
                               ELSE transform
               /\ last' = Call("direction.setter", s, value,
                               IF lib = "returns" THEN Ok ELSE BasisError, None)
               /\ UNCHANGED origin
    /\ UNCHANGED <<sight_lines, parent, name, pixel_samples, acceptance_angle,
                   render_engine, pipelines, heap, engines>>

(* ---------------------------- render engines --------------------------- *)

\* group.render_engine[i]: the getter returns the members' engines themselves.
MemberEngine(re, sl, i) == re[sl[i]]

\* What is read for the engine's configuration through sensor s.
Processes(re, en, s) == en[re[s].v]

\* group.render_engine[i].processes = n: a change of the engine's configuration
\* made through member i (0-based, as in Python) of the group.
engine_configure(g, i, n) ==
    /\ i < Len(sight_lines[g])
    /\ engines' = [engines EXCEPT ![MemberEngine(render_engine, sight_lines[g], i + 1).v] = n]
    /\ last' = Call("engine.configure", g, [member |-> i, value |-> n], Ok, None)
    /\ UNCHANGED <<sight_lines, parent, name, pixel_samples, acceptance_angle,
                   render_engine, pipelines, heap, origin, direction, transform>>

(* ---------------------- the sensor's own flags ------------------------- *)

\* _SpectroscopicObserver0DBase.accumulate.setter / display_progress.setter
sensor_flag_setter(s, flag, value) ==
    /\ heap' = SensorFlagSet(heap, pipelines[s], flag, value)
    /\ last' = Call("sensor.set", s, [p |-> flag, value |-> value], Ok, None)
    /\ UNCHANGED <<sight_lines, parent, name, pixel_samples, acceptance_angle,
                   render_engine, pipelines, origin, direction, transform, engines>>

(* ------------------------------ inputs --------------------------------- *)

\* The list, tuple and ndarray values of the given types over elems, of length 0..n.
Containers(types, elems, n) == {Val(t, q) : t \in types, q \in SeqsUpTo(elems, n)}

NumberValues == {PyInt(100), PyInt(200)}
FlagValues == {PyTrue, PyFalse}
EngineValues == {Engine("e1"), Engine("e2")}
\* A value that is no render engine.
NotAnEngine == PyStr("serial")

\* The sequences handed to a setter: lists of every length up to one more than the
\* longest group; tuples and ndarrays, which differ from a list in the isinstance
\* test alone, of length 0 and 1.
SequenceInputs(elems) ==
    Containers({"list"}, elems, MaxMembers + 1) \cup Containers({"tuple", "ndarray"}, elems, 1)

\* Sequences of render engines, and sequences with elements that are none.
EngineSequenceInputs ==
    SequenceInputs(EngineValues) \cup SequenceInputs({Engine("e1"), NotAnEngine})

MemberLists == SeqsUpTo(Sensors, MaxMembers)

(* ------------------- the broadcast specification ----------------------- *)

\* The sight_lines setter and add_sight_line of group g.
Membership(g) ==
    \/ \E s \in Sensors : add_sight_line(g, s)
    \/ \E value \in MemberLists : sight_lines_setter(g, value)

\* Each setter writes the attribute of its own property and no other; a run of
\* SpecBroadcast exercises one property: a setter is taken while the attributes of
\* the other properties are as constructed.
Constructed(p) ==
    CASE p = "pixel_samples" -> pixel_samples = [s \in Sensors |-> DefaultPixelSamples]
      [] p = "acceptance_angle" ->
             acceptance_angle = [s \in FibreOpticIds |-> DefaultAcceptanceAngle]
      [] p = "render_engine" -> render_engine = [s \in Sensors |-> DefaultEngine(s)]
      [] OTHER -> \A id \in DOMAIN heap : heap[id][p] = DefaultPipelineObject[p]

BroadcastProperties ==
    {"pixel_samples", "acceptance_angle", "render_engine", "accumulate", "display_progress"}

Only(p) == \A q \in BroadcastProperties \ {p} : Constructed(q)

\* The setters are Observer0DGroup's, inherited by both group classes; the runs
\* take them on the fibre-optic group, which has them all.
NextBroadcast ==
    \/ Membership("fog")
    \/ /\ Only("pixel_samples")
       /\ \/ \E v \in NumberValues : pixel_samples_setter("fog", v)
          \/ \E v \in SequenceInputs(NumberValues) : pixel_samples_setter("fog", v)
    \/ /\ Only("acceptance_angle")
       /\ \/ \E v \in NumberValues : acceptance_angle_setter("fog", v)
          \/ \E v \in SequenceInputs(NumberValues) : acceptance_angle_setter("fog", v)
    \/ /\ Only("render_engine")
       /\ \/ \E v \in EngineValues \cup {NotAnEngine} : render_engine_setter("fog", v)
          \/ \E v \in EngineSequenceInputs : render_engine_setter("fog", v)
    \/ \E flag \in {"accumulate", "display_progress"} :
          /\ Only(flag)
          /\ \/ \E v \in FlagValues : flag_setter("fog", flag, v)
             \/ \E v \in SequenceInputs(FlagValues) : flag_setter("fog", flag, v)

SpecBroadcast == Init /\ [][NextBroadcast]_vars

(* ----------------------- claims: broadcast set ------------------------- *)

IsSet == last.op = "set"
SetP == last.arg.p
SetValue == last.arg.value
SetMembers == sight_lines[last.target]
IsFlag(p) == p \in {"accumulate", "display_progress"}
\* The value is a list, tuple or ndarray.
IsContainer(v) == v.t \in {"list", "tuple", "ndarray"}
Distinct(sl) == \A i, j \in 1..Len(sl) : sl[i] = sl[j] => i = j
\* The last position of the group at which sensor s stands.
LastPos(sl, s) == CHOOSE i \in 1..Len(sl) : sl[i] = s /\ \A j \in (i + 1)..Len(sl) : sl[j] # s

C3_LengthMismatch ==
    (IsSet /\ SetValue.t \in (IF SetP = "render_engine" THEN ObjectSeqTypes ELSE NumericSeqTypes)
           /\ Len(SetValue.v) # Len(SetMembers)) =>
        last.outcome = Raised("ValueError", "LengthMismatch")

\* A sequence shorter than a non-empty group has been assigned and refused.
C3_Witness ==
    /\ IsSet /\ IsContainer(SetValue) /\ last.outcome.kind = "LengthMismatch"
    /\ Len(SetValue.v) < Len(SetMembers)

\* C4: assigning to render_engine a scalar that is no render engine, or a list or
\* tuple of the group's length with an element that is no render engine, raises
\* TypeMismatch; a render engine, or a list or tuple of the group's length of render
\* engines, never raises.
C4_RenderEngineType ==
    (IsSet /\ SetP = "render_engine") =>
        /\ (~(SetValue.t \in ObjectSeqTypes) /\ ~IsRenderEngine(SetValue)) =>
               last.outcome = Raised("TypeError", "TypeMismatch")
        /\ (~(SetValue.t \in ObjectSeqTypes) /\ IsRenderEngine(SetValue)) =>
               last.outcome = Ok
        /\ (SetValue.t \in ObjectSeqTypes /\ Len(SetValue.v) = Len(SetMembers)) =>
               last.outcome =
                   IF \E i \in 1..Len(SetValue.v) : ~IsRenderEngine(SetValue.v[i])
                   THEN Raised("TypeError", "TypeMismatch") ELSE Ok

\* A list of the group's length whose second element is no render engine has been
\* assigned and refused.
C4_Witness ==
    /\ IsSet /\ SetP = "render_engine" /\ SetValue.t = "list"
    /\ Len(SetValue.v) = 2 /\ Len(SetMembers) = 2
    /\ IsRenderEngine(SetValue.v[1]) /\ ~IsRenderEngine(SetValue.v[2])
    /\ last.outcome.kind = "TypeMismatch"

(* --------------------- the lookup specification ------------------------ *)

\* The longest properties list handed to connect_pipelines.
MaxPipelines == 2

Halpha == PyStr("Halpha")
Hbeta == PyStr("Hbeta")

\* The sensors are constructed with a name or with none.
InitLookup ==
    /\ sight_lines = [g \in Groups |-> <<>>]
    /\ parent = [s \in Sensors |-> NoParent]
    /\ name \in {nm \in [Sensors -> {None, Halpha}] : nm["s1"] = None}
    /\ pixel_samples = [s \in Sensors |-> DefaultPixelSamples]
    /\ acceptance_angle = [s \in FibreOpticIds |-> DefaultAcceptanceAngle]
    /\ render_engine = [s \in Sensors |-> DefaultEngine(s)]
    /\ pipelines = [s \in Sensors |-> DefaultPipelines(s)]
    /\ heap = [id \in {PipelineId(s, 1, 0) : s \in Sensors} |-> DefaultPipelineObject]
    /\ origin = [s \in Sensors |-> DefaultOrigin]
    /\ direction = [s \in Sensors |-> DefaultDirection]
    /\ transform = [s \in Sensors |->
                       Transform(DefaultOrigin, DefaultDirection, Up(DefaultDirection))]
    /\ engines = [e \in EngineIds |-> DefaultProcesses]
    /\ last = NoCall

\* Pipelines to look up by name: named Halpha, or without a name.
LookupProperties ==
    Containers({"list"},
               {Property("SpectralRadiancePipeline0D", None, None),
                Property("SpectralPowerPipeline0D", Halpha, None)}, MaxPipelines)

\* Keys: the indices around the bounds of the longest collection, the name some
\* elements have and a name none has, and keys that are neither int nor str.
IndexKeys == {PyInt(i) : i \in (0 - MaxPipelines - 1)..(MaxPipelines + 1)} \cup {PyTrue}
NameKeys == {Halpha, Hbeta}
OtherKeys == {Val("float", 1), None}

NextLookup ==
    \/ \E s \in Sensors : add_sight_line("fog", s)
    \/ \E p \in LookupProperties :
          pipelines["s1"] = DefaultPipelines("s1") /\ connect_pipelines("s1", p)
    \/ \E item \in IndexKeys : get_pipeline("s1", item)
    \/ \E item \in NameKeys : get_pipeline("s1", item)
    \/ \E item \in OtherKeys : get_pipeline("s1", item)
    \/ \E item \in IndexKeys : getitem("fog", item)
    \/ \E item \in NameKeys : getitem("fog", item)
    \/ \E item \in OtherKeys : getitem("fog", item)

SpecLookup == InitLookup /\ [][NextLookup]_vars

(* -------------------------- claims: lookup ----------------------------- *)

IsLookup == last.op \in {"get_pipeline", "getitem"}
\* The collection the last lookup searched, and the names of its elements.
Searched ==
    IF last.op = "get_pipeline" THEN pipelines[last.target] ELSE sight_lines[last.target]
SearchedNames ==
    IF last.op = "get_pipeline" THEN PipelineNames(heap, pipelines[last.target])
    ELSE SensorNames(name, sight_lines[last.target])

\* C5 as stated: lookup by an integer i returns the element at position i when
\* 0 <= i < len(collection) and raises LookupNotFound for every other i, negative
\* ones included.
C5_AsStated ==
    (IsLookup /\ last.arg.t = "int") =>
        IF 0 <= last.arg.v /\ last.arg.v < Len(Searched)
        THEN last.outcome = Ok /\ last.ret = Searched[last.arg.v + 1]
        ELSE last.outcome.kind = "LookupNotFound"

\* C5 amended: lookup by an integer i, of a pipeline in a sensor and of a sensor in
\* a group, returns the element at position i when 0 <= i < len, the element at
\* position len + i when -len <= i < 0 (Python's indexing from the end), and raises
\* LookupNotFound (an IndexError) when i >= len or i < -len.
C5_IndexLookup ==
    (IsLookup /\ last.arg.t = "int") =>
        LET i == last.arg.v
            n == Len(Searched)
        IN  /\ (0 <= i /\ i < n) => (last.outcome = Ok /\ last.ret = Searched[i + 1])
            /\ (0 - n <= i /\ i < 0) => (last.outcome = Ok /\ last.ret = Searched[n + i + 1])
            /\ (i >= n \/ i < 0 - n) => last.outcome = Raised("IndexError", "LookupNotFound")

\* get_pipeline(-1) on a sensor with two pipelines returned the second one.
C5_Witness ==
    /\ last.op = "get_pipeline" /\ last.arg = PyInt(-1) /\ last.outcome = Ok
    /\ Len(Searched) = 2 /\ last.ret = Searched[2]

\* C6: lookup by a string, of a pipeline in a sensor and of a sensor in a group,
\* returns the one element of that name; raises LookupNotFound when no element has
\* the name; raises LookupAmbiguous, and returns none of the elements, when two or
\* more have it.
C6_NameLookup ==
    (IsLookup /\ last.arg.t = "str") =>
        LET same == {k \in 1..Len(Searched) : SearchedNames[k] = last.arg}
        IN  /\ Cardinality(same) = 1 =>
                (last.outcome = Ok /\ \A k \in same : last.ret = Searched[k])
            /\ same = {} => last.outcome = Raised("ValueError", "LookupNotFound")
            /\ Cardinality(same) >= 2 =>
                (last.outcome = Raised("ValueError", "LookupAmbiguous") /\ last.ret = None)

\* A sensor with two pipelines of one name was asked for that name.
C6_Witness ==
    /\ last.op = "get_pipeline" /\ last.arg = Halpha
    /\ last.outcome.kind = "LookupAmbiguous"
    /\ Len(Searched) = 2

\* C7: lookup with a key that is neither an integer (a bool is one) nor a string
\* raises InvalidKeyType, in a group and in a sensor, whatever the collection holds,
\* and leaves the collection as it was.
C7_InvalidKey ==
    [][(last'.op \in {"get_pipeline", "getitem"} /\ ~(last'.arg.t \in {"int", "bool", "str"})) =>
           /\ last'.outcome = Raised("TypeError", "InvalidKeyType")
           /\ UNCHANGED <<sight_lines, name, pipelines, heap>>]_vars

\* A group with two members was asked for a float key.
C7_Witness ==
    /\ last.op = "getitem" /\ last.arg.t = "float"
    /\ last.outcome.kind = "InvalidKeyType" /\ Len(Searched) = 2

(* ------------------- specification: connect_pipelines ------------------ *)

\* A filter of the mono pipelines: an instance of SpectralFunction.
Filter == Val("SpectralFunction", "f")

\* The (class, name, filter) tuples of the runs: a spectral class given a filter, a
\* mono class, and a pipeline class connect_pipelines does not support.
ConnectEntries ==
    {Property("SpectralPowerPipeline0D", Halpha, Filter),
     Property("RadiancePipeline0D", None, Filter),
     Property("PowerPipeline2D", None, None)}

ConnectProperties == Containers({"list"}, ConnectEntries, MaxPipelines)

\* The sensor-level calls are taken on the sight line, the group-level calls on the
\* fibre-optic group; a run exercises one of the two.
SensorSide == sight_lines["fog"] = <<>> /\ last.op \in {"none", "connect_pipelines"}
GroupSide == last.op # "connect_pipelines"

NextConnect ==
    \/ SensorSide /\ \E p \in ConnectProperties : connect_pipelines("s1", p)
    \/ GroupSide /\ \E s \in Sensors : add_sight_line("fog", s)
    \/ GroupSide /\ \E p \in ConnectProperties : group_connect_pipelines("fog", p)

SpecConnect == Init /\ [][NextConnect]_vars

(* ----------------------- claims: connect_pipelines --------------------- *)

IsSupported(properties) == \A k \in 1..Len(properties) : properties[k].cls \in SupportedClasses

\* C8: a successful connect_pipelines(properties) on a sensor replaces the sensor's
\* pipeline list: the new list has the length of properties, none of its pipelines is
\* one of the previous list, pipeline k has the class and the name of properties[k]
\* and accumulate = False, and get_pipeline(k) then returns it.
C8_ConnectReplaces ==
    [][(last'.op = "connect_pipelines" /\ last'.outcome = Ok) =>
           LET s == last'.target
               properties == last'.arg.v
               new == pipelines'[s]
           IN  /\ Len(new) = Len(properties)
               /\ Range(new) \cap Range(pipelines[s]) = {}
               /\ \A k \in 1..Len(properties) :
                      /\ heap'[new[k]].cls = properties[k].cls
                      /\ heap'[new[k]].name = properties[k].name
                      /\ heap'[new[k]].accumulate = PyFalse
                      /\ GetPipeline(heap', new, PyInt(k - 1)) = [outcome |-> Ok, ret |-> new[k]]
                      /\ \A j \in 1..Len(properties) : j # k => new[j] # new[k]]_vars

\* A sensor whose pipelines had been connected before was connected one pipeline of
\* a mono class.
C8_Witness ==
    /\ last.op = "connect_pipelines" /\ last.outcome = Ok
    /\ Len(last.arg.v) = 1
    /\ pipelines["s1"][1][3] = 0
    /\ heap[pipelines["s1"][1]].cls = "RadiancePipeline0D"

\* C9: connect_pipelines(properties) with an unsupported class at any position of
\* properties raises UnsupportedVariant on a sensor and leaves the sensor's pipeline
\* list as it was; on a group it leaves the pipeline list of every member as it was
\* (and raises UnsupportedVariant if the group has a member).
C9_Unsupported ==
    [][(/\ last'.op \in {"connect_pipelines", "group.connect_pipelines"}
        /\ ~IsSupported(last'.arg.v)) =>
           /\ UNCHANGED <<pipelines, heap>>
           /\ (last'.op = "connect_pipelines" \/ sight_lines[last'.target] # <<>>) =>
                  last'.outcome = Raised("ValueError", "UnsupportedVariant")]_vars

\* A group of two sensors whose pipelines were connected before was given a list
\* with a supported class first and an unsupported one second.
C9_Witness ==
    /\ last.op = "group.connect_pipelines"
    /\ last.outcome.kind = "UnsupportedVariant"
    /\ Len(last.arg.v) = 2 /\ last.arg.v[1].cls \in SupportedClasses
    /\ Len(sight_lines["fog"]) = 2
    /\ \A s \in FibreOpticIds : pipelines[s] # DefaultPipelines(s)

(* ------------------ specification: _get_same_pipelines ----------------- *)

\* The (class, name, filter) tuples of the runs: a named pipeline of one class and
\* a pipeline of another class without a name.
AggregateEntries ==
    {Property("SpectralRadiancePipeline0D", Halpha, None),
     Property("SpectralPowerPipeline0D", None, None)}

AggregateProperties == Containers({"list"}, AggregateEntries, MaxPipelines)

\* The first and the last position a sensor can have, a name some pipelines have,
\* a name none has, and a key of another type.
AggregateKeys == {PyInt(0), PyInt(MaxPipelines - 1), Halpha, Hbeta, Val("float", 1)}

\* Each sensor's pipelines are connected once in a run.
NextAggregate ==
    \/ \E s \in Sensors : add_sight_line("fog", s)
    \/ \E s \in FibreOpticIds : \E p \in AggregateProperties :
          pipelines[s] = DefaultPipelines(s) /\ connect_pipelines(s, p)
    \/ \E item \in AggregateKeys : get_same_pipelines("fog", item)

SpecAggregate == Init /\ [][NextAggregate]_vars

(* ---------------------- claims: _get_same_pipelines -------------------- *)

IsAggregate == last.op = "_get_same_pipelines"
\* What get_pipeline(item) does on sensor s in the current state.
LookupOn(s, item) == GetPipeline(heap, pipelines[s], item)
Matched(s, item) == LookupOn(s, item).outcome = Ok

\* C10: when item is found in at least one member of the group and the pipelines
\* found are all of one class, _get_same_pipelines(item) raises nothing and returns
\* two lists of equal length: the sight lines are the members in which the lookup
\* of item returns a pipeline, in group order (the members in which it is not found
\* are left out), and pipelines[k] is the pipeline the lookup returns on sight line k.
C10_Aggregate ==
    IsAggregate =>
        LET sl == sight_lines[last.target]
            item == last.arg
            found == {k \in 1..Len(sl) : Matched(sl[k], item)}
        IN  (/\ found # {}
             /\ Cardinality({heap[LookupOn(sl[k], item).ret].cls : k \in found}) = 1) =>
                /\ last.outcome = Ok
                /\ Len(last.ret.pipelines) = Len(last.ret.sight_lines)
                /\ last.ret.sight_lines = SelectSeq(sl, LAMBDA s : Matched(s, item))
                /\ \A k \in 1..Len(last.ret.sight_lines) :
                       last.ret.pipelines[k] = LookupOn(last.ret.sight_lines[k], item).ret

\* In a group of two sensors the name was not found in the first one (which has a
\* pipeline) and found in the second: the result holds the second alone.
C10_Witness ==
    /\ IsAggregate /\ last.arg = Halpha /\ last.outcome = Ok
    /\ Len(sight_lines["fog"]) = 2
    /\ pipelines[sight_lines["fog"][1]] # <<>>
    /\ LookupOn(sight_lines["fog"][1], Halpha).outcome.kind = "LookupNotFound"
    /\ last.ret.sight_lines = <<sight_lines["fog"][2]>>
    /\ last.ret.pipelines = <<LookupOn(sight_lines["fog"][2], Halpha).ret>>

\* C11 as stated: when item (an integer or a string) is found in no member of the
\* group, the empty group included, _get_same_pipelines raises the ValueError that
\* says the pipeline was not found for any sight line (AggregationEmpty), and no
\* error of another kind.
C11_AsStated ==
    (/\ IsAggregate
     /\ last.arg.t \in {"int", "str"}
     /\ \A k \in 1..Len(sight_lines[last.target]) :
            ~Matched(sight_lines[last.target][k], last.arg)) =>
        last.outcome = Raised("ValueError", "AggregationEmpty")

(* ----------------------- specification: plotting ----------------------- *)

\* The (class, name, filter) tuples of the runs: a named spectral pipeline and a
\* mono pipeline without a name.
PlotEntries ==
    {Property("SpectralRadiancePipeline0D", Halpha, None),
     Property("PowerPipeline0D", None, None)}

PlotProperties == Containers({"list"}, PlotEntries, MaxPipelines)

\* One fibre is constructed with a name, the other sensors without.
InitPlot ==
    /\ sight_lines = [g \in Groups |-> <<>>]
    /\ parent = [s \in Sensors |-> NoParent]
    /\ name = [s \in Sensors |-> IF s = "f1" THEN PyStr("fibre 1") ELSE None]
    /\ pixel_samples = [s \in Sensors |-> DefaultPixelSamples]
    /\ acceptance_angle = [s \in FibreOpticIds |-> DefaultAcceptanceAngle]
    /\ render_engine = [s \in Sensors |-> DefaultEngine(s)]
    /\ pipelines = [s \in Sensors |-> DefaultPipelines(s)]
    /\ heap = [id \in {PipelineId(s, 1, 0) : s \in Sensors} |-> DefaultPipelineObject]
    /\ origin = [s \in Sensors |-> DefaultOrigin]
    /\ direction = [s \in Sensors |-> DefaultDirection]
    /\ transform = [s \in Sensors |->
                       Transform(DefaultOrigin, DefaultDirection, Up(DefaultDirection))]
    /\ engines = [e \in EngineIds |-> DefaultProcesses]
    /\ last = NoCall

\* The first position, a name some pipelines have and a key of another type.
PlotKeys == {PyInt(0), Halpha, Val("float", 1)}

\* Each sensor's pipelines are connected once in a run.
NextPlot ==
    \/ \E s \in Sensors : add_sight_line("fog", s)
    \/ \E s \in FibreOpticIds : \E p \in PlotProperties :
          pipelines[s] = DefaultPipelines(s) /\ connect_pipelines(s, p)
    \/ \E item \in PlotKeys : get_same_pipelines("fog", item)
    \/ \E item \in PlotKeys : plot_total_signal("fog", item)
    \/ \E item \in PlotKeys : \E in_photons \in BOOLEAN :
          plot_spectra("fog", item, in_photons)

SpecPlot == InitPlot /\ [][NextPlot]_vars

(* --------------------------- claims: plotting -------------------------- *)

AggregatingOps == {"_get_same_pipelines", "plot_total_signal", "plot_spectra"}
\* The classes of the pipelines the lookup of the last call's item returns on the
\* members of the group.
MatchedTypes ==
    {heap[LookupOn(s, last.arg).ret].cls :
        s \in {m \in Range(sight_lines[last.target]) : Matched(m, last.arg)}}

\* C12: _get_same_pipelines, and plot_total_signal and plot_spectra which call it
\* first, raise AggregationTypeConflict exactly when the pipelines matched in the
\* group's sensors are of two or more classes; the two plots have then drawn no bar
\* and no line.
C12_TypeConflict ==
    (last.op \in AggregatingOps) =>
        /\ (last.outcome = Raised("ValueError", "AggregationTypeConflict"))
               <=> (Cardinality(MatchedTypes) >= 2)
        /\ last.outcome.kind # "AggregationTypeConflict"
               <=> (Cardinality(MatchedTypes) <= 1)
        /\ (Cardinality(MatchedTypes) >= 2 /\ last.op # "_get_same_pipelines") =>
               last.ret = EmptyAxes

\* plot_total_signal(0) on a group of two sensors whose first pipelines are of
\* different classes.
C12_Witness ==
    /\ last.op = "plot_total_signal" /\ last.arg = PyInt(0)
    /\ last.outcome.kind = "AggregationTypeConflict"
    /\ Len(sight_lines["fog"]) = 2
    /\ last.ret.artists = <<>>

(* ------------------ specification: origin and direction --------------- *)

PointValues == {Point3D(0, 0, 0), Point3D(1, 2, 3)}
\* The three axes, the reverse of the z axis, and the zero vector.
VectorValues ==
    {Vector3D(1, 0, 0), Vector3D(0, 1, 0), Vector3D(0, 0, 1), Vector3D(0, 0, -1),
     Vector3D(0, 0, 0)}
\* Values of another type than the property takes.
NotAPoint == {Vector3D(1, 0, 0), None}
NotAVector == {Point3D(1, 2, 3), None}

PlacedSensors == {"s1", "f1"}

NextPlacement ==
    \/ \E s \in PlacedSensors : \E v \in PointValues : origin_setter(s, v)
    \/ \E s \in PlacedSensors : \E v \in NotAPoint : origin_setter(s, v)
    \/ \E s \in PlacedSensors : \E v \in VectorValues : direction_setter(s, v)
    \/ \E s \in PlacedSensors : \E v \in NotAVector : direction_setter(s, v)

SpecPlacement == Init /\ [][NextPlacement]_vars

(* --------------------- claims: origin and direction -------------------- *)

PlacementOps == {"origin.setter", "direction.setter"}

\* C13 as stated: after construction and after every origin and direction
\* assignment, each sensor's transform is translate(origin) composed with the basis
\* of (direction, up chosen for direction), from the origin and the direction the
\* sensor has; an assignment rejected for its type changes none of the three.
C13_AsStated ==
    [][/\ \A s \in Sensors :
              transform'[s] = Transform(origin'[s], direction'[s], Up(direction'[s]))
       /\ (last'.op \in PlacementOps /\ last'.outcome.kind = "TypeMismatch") =>
              UNCHANGED <<origin, direction, transform>>]_vars

\* C14 as stated: for every non-zero direction assigned to a sensor the up axis the
\* setter selects is not parallel or anti-parallel to it: (1,0,0) for the direction
\* (0,0,1), (0,0,1) for any other one.
C14_AsStated ==
    (/\ last.op = "direction.setter"
     /\ last.arg.t = "Vector3D"
     /\ last.arg.v # <<0, 0, 0>>) =>
        /\ Up(last.arg) = IF last.arg.v = <<0, 0, 1>> THEN Vector3D(1, 0, 0)
                          ELSE Vector3D(0, 0, 1)
        /\ ~Degenerate(last.arg, Up(last.arg))

(* ----------------------- specification: membership --------------------- *)

\* The line-of-sight group and the two fibre-optic groups are grown with
\* add_sight_line; the first fibre-optic group is also assigned its sight_lines.
NextMembership ==
    \/ \E g \in Groups : \E s \in Sensors : add_sight_line(g, s)
    \/ \E value \in MemberLists : sight_lines_setter("fog", value)
    \/ \E g \in Groups : observe(g)

SpecMembership == Init /\ [][NextMembership]_vars

(* -------------------------- claims: membership ------------------------- *)

MembershipOps == {"add_sight_line", "sight_lines.setter"}

\* C15: after every sight_lines assignment and add_sight_line call, successful or
\* failed, every member of a LineOfSightGroup is a SpectroscopicSightLine and every
\* member of a FibreOpticGroup is a SpectroscopicFibreOptic; a call rejected for an
\* element of the wrong class, at any position, leaves every group's membership and
\* every sensor's parent as they were.
C15_MemberKinds ==
    [][/\ \A g \in Groups : \A k \in 1..Len(sight_lines'[g]) :
              SensorClass(sight_lines'[g][k]) = MemberClass(g)
       /\ (last'.op \in MembershipOps /\ last'.outcome.kind = "TypeMismatch") =>
              UNCHANGED <<sight_lines, parent>>]_vars

\* A fibre-optic group with a member was assigned a list with a fibre optic first
\* and a sight line second.
C15_Witness ==
    /\ last.op = "sight_lines.setter" /\ last.outcome.kind = "TypeMismatch"
    /\ Len(last.arg) = 2
    /\ SensorClass(last.arg[1]) = "SpectroscopicFibreOptic"
    /\ SensorClass(last.arg[2]) = "SpectroscopicSightLine"
    /\ sight_lines["fog"] # <<>> /\ parent[last.arg[1]] # "fog"

\* C16 as stated: a sensor is in the membership of a group only if the group is the
\* sensor's parent; no sensor is a member of two groups.
C16_AsStated ==
    /\ \A g \in Groups : \A s \in Range(sight_lines[g]) : parent[s] = g
    /\ \A g, h \in Groups : g # h => Range(sight_lines[g]) \cap Range(sight_lines[h]) = {}

\* C17 as stated: one observe() on a group calls the observe() of each sensor of
\* the group exactly once, in group order, and of no sensor outside the group.
C17_AsStated ==
    last.op = "observe" =>
        LET sl == sight_lines[last.target]
            calls == last.ret.v
        IN  /\ \A s \in Range(sl) : Cardinality({k \in 1..Len(calls) : calls[k] = s}) = 1
            /\ Range(calls) \subseteq Range(sl)
            /\ \A i, j \in 1..Len(calls) :
                   i < j => \E a, b \in 1..Len(sl) : a < b /\ sl[a] = calls[i] /\ sl[b] = calls[j]

\* C17 amended: one observe() on a group calls the observe() of the sensor at each
\* position of the group once, in group order, and of no other sensor: a sensor
\* that stands at k positions is observed k times.
C17_ObserveEachPosition ==
    last.op = "observe" =>
        LET sl == sight_lines[last.target]
            calls == last.ret.v
        IN  /\ Len(calls) = Len(sl)
            /\ \A k \in 1..Len(sl) : calls[k] = sl[k]
            /\ \A s \in Sensors :
                   Cardinality({k \in 1..Len(calls) : calls[k] = s})
                       = Cardinality({k \in 1..Len(sl) : sl[k] = s})

\* observe() on a group to which one fibre was added twice.
C17_Witness ==
    /\ last.op = "observe" /\ last.target = "fog"
    /\ sight_lines["fog"] = <<"f1", "f1">>
    /\ last.ret.v = <<"f1", "f1">>

(* --------------------- specification: render engines ------------------ *)

ProcessValues == {2}

NextEngine ==
    \/ \E s \in Sensors : add_sight_line("fog", s)
    \/ \E v \in EngineValues \cup {NotAnEngine} : render_engine_setter("fog", v)
    \/ \E v \in EngineSequenceInputs : render_engine_setter("fog", v)
    \/ \E i \in 0..(MaxMembers - 1) : \E n \in ProcessValues : engine_configure("fog", i, n)

SpecEngine == Init /\ [][NextEngine]_vars

(* ------------------------- claims: render engines ---------------------- *)

IsEngineSet == last.op = "set" /\ last.arg.p = "render_engine" /\ last.outcome = Ok
\* A change made through member i is observed through member j exactly when the two
\* reference one engine instance.
SharesEngine(re, sl, i, j) == re[sl[i]] = re[sl[j]]

\* C18 as stated: after a scalar assignment of one engine every member references
\* that instance, so a change through one member is observed through all; after the
\* assignment of a sequence of pairwise distinct engines a change through member i
\* is observed through member i only: no two positions share an engine.
C18_AsStated ==
    IsEngineSet =>
        LET sl == sight_lines[last.target]
            value == last.arg.value
        IN  IF value.t \in ObjectSeqTypes
            THEN Distinct(value.v) =>
                     \A i, j \in 1..Len(sl) : i # j => ~SharesEngine(render_engine, sl, i, j)
            ELSE \A i \in 1..Len(sl) : render_engine[sl[i]] = value

\* C18 amended: a scalar assignment of one engine makes every member reference that
\* instance, and a change made to it through one member is then read through every
\* member; the assignment of a sequence of pairwise distinct engines to a group of
\* pairwise distinct sensors gives member i the instance value[i], and a change made
\* through member i is then read through member i and through no other member.
C18_EngineSharing ==
    [][LET g == last'.target
           sl == sight_lines[g]
       IN  /\ (last'.op = "set" /\ last'.arg.p = "render_engine" /\ last'.outcome = Ok) =>
                  IF last'.arg.value.t \in ObjectSeqTypes
                  THEN (Distinct(last'.arg.value.v) /\ Distinct(sl)) =>
                           /\ \A i \in 1..Len(sl) : render_engine'[sl[i]] = last'.arg.value.v[i]
                           /\ \A i, j \in 1..Len(sl) :
                                  i # j => ~SharesEngine(render_engine', sl, i, j)
                  ELSE \A i \in 1..Len(sl) : render_engine'[sl[i]] = last'.arg.value
           /\ last'.op = "engine.configure" =>
                  LET i == last'.arg.member + 1
                      n == last'.arg.value
                  IN  \A j \in 1..Len(sl) :
                          Processes(render_engine', engines', sl[j]) =
                              IF SharesEngine(render_engine, sl, i, j) THEN n
                              ELSE Processes(render_engine, engines, sl[j])]_vars

\* In a group of two sensors that were assigned one engine, the configuration was
\* changed through the first member and is read through the second.
C18_Witness ==
    /\ last.op = "engine.configure" /\ last.arg.member = 0
    /\ Len(sight_lines["fog"]) = 2 /\ Distinct(sight_lines["fog"])
    /\ render_engine[sight_lines["fog"][1]] = Engine("e1")
    /\ render_engine[sight_lines["fog"][2]] = Engine("e1")
    /\ Processes(render_engine, engines, sight_lines["fog"][2]) # DefaultProcesses

(* ------------------- specification: pipeline ownership ---------------- *)

\* A pipeline the caller constructed and gave to the constructors of both fibres
\* (pipelines=[p]): the two sensors start with the same instance.
UserPipeline == PipelineId("user", 1, 0)

InitShared ==
    /\ sight_lines = [g \in Groups |-> <<>>]
    /\ parent = [s \in Sensors |-> NoParent]
    /\ name = [s \in Sensors |-> None]
    /\ pixel_samples = [s \in Sensors |-> DefaultPixelSamples]
    /\ acceptance_angle = [s \in FibreOpticIds |-> DefaultAcceptanceAngle]
    /\ render_engine = [s \in Sensors |-> DefaultEngine(s)]
    /\ pipelines = [s \in Sensors |->
                       IF s \in FibreOpticIds THEN <<UserPipeline>> ELSE DefaultPipelines(s)]
    /\ heap = [id \in {UserPipeline, PipelineId("s1", 1, 0)} |-> DefaultPipelineObject]
    /\ origin = [s \in Sensors |-> DefaultOrigin]
    /\ direction = [s \in Sensors |-> DefaultDirection]
    /\ transform = [s \in Sensors |->
                       Transform(DefaultOrigin, DefaultDirection, Up(DefaultDirection))]
    /\ engines = [e \in EngineIds |-> DefaultProcesses]
    /\ last = NoCall

\* A pipeline that carries both flags, and a class connect_pipelines rejects.
OwnEntries ==
    {Property("SpectralPowerPipeline0D", None, None), Property("PowerPipeline2D", None, None)}

OwnProperties == Containers({"list"}, OwnEntries, MaxPipelines)

\* The group is built first; once connect_pipelines has succeeded on it, the own
\* connect_pipelines and flag setters of one fibre are called.
Building == last.op \in {"none", "add_sight_line"}
GroupConnected ==
    \/ last.op \in {"connect_pipelines", "sensor.set"}
    \/ last.op = "group.connect_pipelines" /\ last.outcome = Ok

NextOwnership ==
    \/ Building /\ \E s \in Sensors : add_sight_line("fog", s)
    \/ \E p \in OwnProperties : group_connect_pipelines("fog", p)
    \/ GroupConnected /\ \E p \in OwnProperties : connect_pipelines("f1", p)
    \/ GroupConnected /\ \E flag \in {"accumulate", "display_progress"} :
          sensor_flag_setter("f1", flag, PyTrue)

SpecOwnership == InitShared /\ [][NextOwnership]_vars

(* ----------------------- claims: pipeline ownership -------------------- *)

\* C19: once connect_pipelines has been called on a group, and after every later
\* connect_pipelines on the group or on one of its members, no pipeline instance is in
\* the pipelines list of two distinct sensors of the group, and setting accumulate or
\* display_progress on one sensor leaves what every other member reports for the two
\* flags as it was.
C19_OwnPipelines ==
    [][LET members == Range(sight_lines["fog"])
       IN  /\ (\/ last'.op \in {"connect_pipelines", "sensor.set"}
               \/ last'.op = "group.connect_pipelines" /\ last'.outcome = Ok) =>
                  \A s, t \in members :
                      s # t => Range(pipelines'[s]) \cap Range(pipelines'[t]) = {}
           /\ last'.op = "sensor.set" =>
                  \A t \in members \ {last'.target} :
                      \A flag \in {"accumulate", "display_progress"} :
                          SensorFlagGet(heap', pipelines'[t], flag)
                              = SensorFlagGet(heap, pipelines[t], flag)]_vars

\* Two fibres constructed with one pipeline were connected through their group;
\* accumulate was then set on the first and the second still reports False.
C19_Witness ==
    /\ last.op = "sensor.set" /\ last.target = "f1" /\ last.arg.p = "accumulate"
    /\ sight_lines["fog"] = <<"f1", "f2">>
    /\ SensorFlagGet(heap, pipelines["f1"], "accumulate") = Val("list", <<PyTrue>>)
    /\ SensorFlagGet(heap, pipelines["f2"], "accumulate") = Val("list", <<PyFalse>>)

(* ------------------ claims: _get_same_pipelines, errors ---------------- *)

\* C20 as stated: _get_same_pipelines skips a sensor only when the lookup of item
\* in it fails with LookupNotFound; when a member holds two or more pipelines named
\* item, the LookupAmbiguous error of that lookup reaches the caller and the sensor is
\* not dropped from the aggregate.
C20_AsStated ==
    (/\ IsAggregate
     /\ \E s \in Range(sight_lines[last.target]) :
            LookupOn(s, last.arg).outcome.kind = "LookupAmbiguous") =>
        last.outcome = Raised("ValueError", "LookupAmbiguous")

(* ---------------- claims: a broadcast set that raises ------------------ *)

\* The value of broadcast property p on sensor s, read from the given attributes.
MemberValue(p, s, ps, aa, re, h) ==
    CASE p = "pixel_samples" -> ps[s]
      [] p = "acceptance_angle" -> aa[s]
      [] p = "render_engine" -> re[s]
      [] OTHER -> SensorFlagGet(h, pipelines[s], p)

\* C21 as stated: a broadcast assignment on a group that raises an error
\* (LengthMismatch, or a type error caused by an element at any position of a
\* sequence of the group's length, such as a value that is no render engine in a
\* render_engine list) leaves the value of that property on every member as it was
\* before the call: no prefix of the members is updated.
C21_AsStated ==
    [][(last'.op = "set" /\ last'.outcome # Ok) =>
          \A s \in Range(sight_lines[last'.target]) :
             MemberValue(last'.arg.p, s, pixel_samples', acceptance_angle',
                         render_engine', heap')
                 = MemberValue(last'.arg.p, s, pixel_samples, acceptance_angle,
                               render_engine, heap)]_vars

====
